---- MODULE Spec2Model ----
(***************************************************************************)
(* A model of analyze_trex.py: a linear script that loads a CSV of fossil  *)
(* occurrences, filters the rows that mention T-Rex, logs them, draws a    *)
(* map and a timeline, and writes the filtered rows to a CSV.              *)
(*                                                                         *)
(* Text is a sequence of one-character strings.  A table cell is a record  *)
(* [t, v]: t is "null" (NaN), "num" (a number, v its digits) or "str"      *)
(* (text, v its characters).                                               *)
(***************************************************************************)
EXTENDS Integers, Sequences, FiniteSets, TLC

\* ------------------------------------------------------------------ bounds

\* Longest text handed to extract_years in the function-level specification.
MaxYearLen == 4
\* Longest text handed to contains_trex in the function-level specification.
MaxTrexLen == 4
\* Most data lines in the input file.
MaxRows == 2
\* Most metadata lines before the header of the input file.
MaxMeta == 3

\* -------------------------------------------------------------------- text

Digits == {"0", "1", "2", "3", "4", "5", "6", "7", "8", "9"}
\* The characters \s matches that the model uses.
Whitespace == {" ", "\t"}

UpperAlpha == <<"A","B","C","D","E","F","G","H","I","J","K","L","M",
                "N","O","P","Q","R","S","T","U","V","W","X","Y","Z">>
LowerAlpha == <<"a","b","c","d","e","f","g","h","i","j","k","l","m",
                "n","o","p","q","r","s","t","u","v","w","x","y","z">>

\* str.lower() on one character.
LowerChar(c) ==
    IF \E i \in DOMAIN UpperAlpha : UpperAlpha[i] = c
    THEN LowerAlpha[CHOOSE i \in DOMAIN UpperAlpha : UpperAlpha[i] = c]
    ELSE c

\* str.lower()
Lower(s) == [i \in DOMAIN s |-> LowerChar(s[i])]

\* ------------------------------------------------------------------- regex
\* A pattern is a sequence of atoms; an atom matches one character of a set
\* exactly once ("one"), at most once ("opt") or any number of times ("star").

One(cs)  == [chars |-> cs, q |-> "one"]
Opt(cs)  == [chars |-> cs, q |-> "opt"]
Star(cs) == [chars |-> cs, q |-> "star"]
Lit(s)   == [i \in DOMAIN s |-> One({s[i]})]

\* Whether atoms k.. of pattern p match text s starting at position i.
RECURSIVE MatchAt(_, _, _, _)
MatchAt(p, k, s, i) ==
    IF k > Len(p) THEN TRUE
    ELSE LET a    == p[k]
             here == i <= Len(s) /\ s[i] \in a.chars
         IN  CASE a.q = "one"  -> here /\ MatchAt(p, k + 1, s, i + 1)
               [] a.q = "opt"  -> \/ here /\ MatchAt(p, k + 1, s, i + 1)
                                  \/ MatchAt(p, k + 1, s, i)
               [] a.q = "star" -> \/ here /\ MatchAt(p, k, s, i + 1)
                                  \/ MatchAt(p, k + 1, s, i)

\* re.search: the leftmost position where p matches in s, 0 when none does.
Search(p, s) ==
    IF \E i \in 1..(Len(s) + 1) : MatchAt(p, 1, s, i)
    THEN CHOOSE i \in 1..(Len(s) + 1) :
            /\ MatchAt(p, 1, s, i)
            /\ \A j \in 1..(i - 1) : ~MatchAt(p, 1, s, j)
    ELSE 0

\* ----------------------------------------------------------- cell values

Null    == [t |-> "null", v |-> <<>>]
Num(ds) == [t |-> "num", v |-> ds]
Str(s)  == [t |-> "str", v |-> s]

\* isinstance(text, str)
IsStr(x) == x.t = "str"
\* pd.isna / pd.notna on a scalar
isna(x)  == x.t = "null"
notna(x) == ~isna(x)
\* str(x) of a non-null cell: the text itself, or the number's digits.
str(x)   == x.v

\* --------------------------------------------------------- contains_trex

trex_patterns ==
    << <<One({"t"}), Opt({"-"} \cup Whitespace)>> \o Lit(<<"r","e","x">>),
       Lit(<<"t","y","r","a","n","n","o","s","a","u","r","u","s">>),
       <<One({"t"}), Star({"."}), Star(Whitespace)>>
           \o Lit(<<"r","e","x","u","s">>),
       Lit(<<"t","y","r","a","n","t">>) >>

\* Mutant: the text is searched as written, without lower().
contains_trex_case_sensitive(text) ==
    IF ~IsStr(text) THEN FALSE
    ELSE \E k \in DOMAIN trex_patterns : Search(trex_patterns[k], text.v) # 0

contains_trex(text) ==
    IF ~IsStr(text) THEN FALSE
    ELSE \E k \in DOMAIN trex_patterns :
            Search(trex_patterns[k], Lower(text.v)) # 0

\* --------------------------------------------------------- extract_years

\* An optional year: None, or an integer.
None    == [ok |-> FALSE, year |-> 0]
Some(y) == [ok |-> TRUE, year |-> y]

D4 == <<One(Digits), One(Digits), One(Digits), One(Digits)>>

year_patterns ==
    << D4,
       D4 \o <<One({"-"})>> \o D4,
       D4 \o <<One({"ndash"})>> \o D4,
       D4 \o <<Star(Whitespace), One({","})>> >>

DigitVal(c) == CHOOSE n \in 0..9 : ToString(n) = c

\* int() of a text of digits.
RECURSIVE int(_)
int(ds) ==
    IF ds = <<>> THEN 0
    ELSE 10 * int(SubSeq(ds, 1, Len(ds) - 1)) + DigitVal(ds[Len(ds)])

\* match.group(1): in each of the four patterns the group is the four
\* digits the match starts with.
group1(s, at) == SubSeq(s, at, at + 3)

\* The loop over year_patterns from pattern k on.
RECURSIVE try_patterns(_, _, _)
try_patterns(ps, k, s) ==
    IF k > Len(ps) THEN None
    ELSE LET at == Search(ps[k], s)
         IN  IF at # 0 THEN Some(int(group1(s, at)))
             ELSE try_patterns(ps, k + 1, s)

\* Mutant: the bare-year pattern left out of the list.
extract_years_ranges_only(date_str) ==
    IF isna(date_str) THEN None
    ELSE try_patterns(year_patterns, 2, str(date_str))

extract_years(date_str) ==
    IF isna(date_str) THEN None
    ELSE try_patterns(year_patterns, 1, str(date_str))

\* ---------------------------------------------------------------- columns

occurrence_no == <<"occurrence_no">>

taxonomic_columns ==
    << <<"identified_name">>, <<"identified_rank">>, <<"accepted_name">>,
       <<"accepted_rank">>, <<"phylum">>, <<"class">>, <<"order">>,
       <<"family">>, <<"genus">> >>

discovery_columns ==
    << <<"collection_name">>, <<"cc">>, <<"state">>, <<"lat">>, <<"lng">>,
       <<"collection_dates">>, <<"collectors">>, <<"collection_type">>,
       <<"collection_size">>, <<"collection_methods">>,
       <<"occurrence_comments">>, <<"preservation_comments">>,
       <<"collection_comments">> >>

\* The columns the per-record report reads with record[...], in the order
\* it reads them.
report_columns ==
    << <<"accepted_name">>, <<"genus">>, <<"collection_name">>, <<"cc">>,
       <<"state">>, <<"lat">>, <<"lng">>, <<"collectors">>,
       <<"collection_dates">>, <<"collection_type">>, <<"collection_size">>,
       <<"collection_methods">>, <<"occurrence_comments">>,
       <<"preservation_comments">>, <<"collection_comments">> >>

Range(f) == {f[i] : i \in DOMAIN f}

\* --------------------------------------------------------------- tables
\* A table (DataFrame) is [columns, index, rows]: the column names, the
\* row labels, and one tuple of cells per row, in column order.

HasCol(t, c) == \E i \in DOMAIN t.columns : t.columns[i] = c
ColIndex(t, c) == CHOOSE i \in DOMAIN t.columns : t.columns[i] = c
\* record[c] of row r of table t
Cell(t, r, c) == t.rows[r][ColIndex(t, c)]
\* DataFrame.empty
empty(t) == Len(t.rows) = 0

RECURSIVE KeptFrom(_, _)
KeptFrom(mask, i) ==
    IF i > Len(mask) THEN <<>>
    ELSE (IF mask[i] THEN <<i>> ELSE <<>>) \o KeptFrom(mask, i + 1)

\* df[mask]: the rows whose mask entry is true, in order, labels kept.
BoolIndex(t, mask) ==
    LET k == KeptFrom(mask, 1)
    IN  [columns |-> t.columns,
         index   |-> [j \in DOMAIN k |-> t.index[k[j]]],
         rows    |-> [j \in DOMAIN k |-> t.rows[k[j]]]]

\* ---------------------------------------------------------------- loader
\* A file is a sequence of lines; a line is [quoted, fields]: whether its
\* fields are written inside double quotes, and the fields' text.

\* line.startswith('"occurrence_no"')
startswith_token(line) ==
    /\ line.quoted
    /\ Len(line.fields) >= 1
    /\ line.fields[1] = occurrence_no

\* The loop over enumerate(lines) from (1-based) line i on; header_row
\* is 0-based and stays 0 when no line matches.
RECURSIVE scan_header(_, _)
scan_header(lines, i) ==
    IF i > Len(lines) THEN 0
    ELSE IF startswith_token(lines[i]) THEN i - 1
    ELSE scan_header(lines, i + 1)

\* Mutant: enumerate counted from 1.
find_header_from_one(lines) ==
    IF \E i \in DOMAIN lines : startswith_token(lines[i])
    THEN scan_header(lines, 1) + 1
    ELSE 0

find_header(lines) == scan_header(lines, 1)

\* Whether a field reads as a number: an optional sign, digits, at most
\* one decimal point.
IsNumeric(f) ==
    /\ f # <<>>
    /\ LET b == IF f[1] = "-" THEN Tail(f) ELSE f
       IN  /\ \E i \in DOMAIN b : b[i] \in Digits
           /\ \A i \in DOMAIN b : b[i] \in Digits \cup {"."}
           /\ Cardinality({i \in DOMAIN b : b[i] = "."}) <= 1

RECURSIVE StripZeros(_)
StripZeros(ds) ==
    IF Len(ds) > 1 /\ ds[1] = "0" THEN StripZeros(Tail(ds)) ELSE ds

\* str() of the integer a field parses to.
IntText(f) ==
    IF f[1] = "-" THEN <<"-">> \o StripZeros(Tail(f)) ELSE StripZeros(f)

HasPoint(f) == \E i \in DOMAIN f : f[i] = "."

\* The field of data line l under column j: a short line is padded with
\* empty fields.
FieldAt(l, j) == IF j <= Len(l.fields) THEN l.fields[j] ELSE <<>>

\* One parsed column: an empty field is NaN; when every other field is a
\* number the column is numeric (int64 without NaN or decimal point,
\* float64 otherwise), else its fields stay text.
ParseColumn(data, j) ==
    LET fs      == [r \in DOMAIN data |-> FieldAt(data[r], j)]
        numeric == \A r \in DOMAIN fs : fs[r] = <<>> \/ IsNumeric(fs[r])
        float   == \E r \in DOMAIN fs : fs[r] = <<>> \/ HasPoint(fs[r])
    IN  [r \in DOMAIN fs |->
            IF fs[r] = <<>> THEN Null
            ELSE IF ~numeric THEN Str(fs[r])
            ELSE IF ~float THEN Num(IntText(fs[r]))
            ELSE IF HasPoint(fs[r]) THEN Num(fs[r])
            ELSE Num(IntText(fs[r]) \o <<".", "0">>)]

\* pd.read_csv(path, skiprows=n) on a file with at least n + 1 lines: the
\* first line kept names the columns, each later line is one row.
read_csv(lines, n) ==
    LET header == lines[n + 1].fields
        data   == SubSeq(lines, n + 2, Len(lines))
        cols   == [j \in DOMAIN header |-> ParseColumn(data, j)]
    IN  [columns |-> header,
         index   |-> [r \in DOMAIN data |-> r - 1],
         rows    |-> [r \in DOMAIN data |->
                        [j \in DOMAIN header |-> cols[j][r]]]]

\* A data line with more fields than the header names.
Ragged(lines, n) ==
    \E r \in (n + 2)..Len(lines) :
        Len(lines[r].fields) > Len(lines[n + 1].fields)

\* ------------------------------------------------------------- matcher

\* df[cols].apply(lambda x: x.apply(contains_trex)): one boolean column
\* per taxonomic column.
apply_contains_trex(t, cols) ==
    [c \in DOMAIN cols |->
        [r \in DOMAIN t.rows |-> contains_trex(Cell(t, r, cols[c]))]]

\* Mutant: .all(axis=1) in place of .any(axis=1).
all_axis1(frame, n) ==
    [r \in 1..n |-> \A c \in DOMAIN frame : frame[c][r]]

\* .any(axis=1)
any_axis1(frame, n) ==
    [r \in 1..n |-> \E c \in DOMAIN frame : frame[c][r]]

compute_trex_mask(t) ==
    any_axis1(apply_contains_trex(t, taxonomic_columns), Len(t.rows))

\* ---------------------------------------------------------------- to_csv

\* The text to_csv writes for a cell: nothing for NaN.
FormatCell(x) == IF isna(x) THEN <<>> ELSE x.v

\* Mutant: to_csv with index=True, the row labels written as a first,
\* unnamed column.
to_csv_with_index(t) ==
    <<[quoted |-> FALSE, fields |-> << <<>> >> \o t.columns]>>
    \o [r \in DOMAIN t.rows |->
          [quoted |-> FALSE,
           fields |-> << <<ToString(t.index[r])>> >>
                      \o [j \in DOMAIN t.columns |-> FormatCell(t.rows[r][j])]]]

\* DataFrame.to_csv(path, index=False): a header line of the bare column
\* names, then one line per row.
to_csv(t) ==
    <<[quoted |-> FALSE, fields |-> t.columns]>>
    \o [r \in DOMAIN t.rows |->
          [quoted |-> FALSE,
           fields |-> [j \in DOMAIN t.columns |-> FormatCell(t.rows[r][j])]]]


\* ------------------------------------------------------------- visualizer

\* Whether float(x) succeeds on a non-null cell.
float_ok(x) == x.t = "num" \/ IsNumeric(x.v)

\* Mutant: a row counts as located when either coordinate is present.
valid_location_either(t, r) ==
    notna(Cell(t, r, <<"lat">>)) \/ notna(Cell(t, r, <<"lng">>))

\* pd.notna(record["lat"]) and pd.notna(record["lng"])
valid_location(t, r) ==
    notna(Cell(t, r, <<"lat">>)) /\ notna(Cell(t, r, <<"lng">>))

\* The marker loop from row r on: the markers added, and whether a float()
\* raised (the loop ends there).
RECURSIVE add_markers(_, _)
add_markers(t, r) ==
    IF r > Len(t.rows) THEN [raised |-> FALSE, markers |-> <<>>]
    ELSE IF ~valid_location(t, r) THEN add_markers(t, r + 1)
    ELSE IF ~(float_ok(Cell(t, r, <<"lat">>)) /\ float_ok(Cell(t, r, <<"lng">>)))
         THEN [raised |-> TRUE, markers |-> <<>>]
    ELSE LET rest == add_markers(t, r + 1)
         IN  [raised  |-> rest.raised,
              markers |-> <<t.index[r]>> \o rest.markers]

\* Mutant: the map builder's failure is not caught inside it.
map_except_missing(e) == FALSE

\* "except Exception" of create_fossil_map: whether it catches e.
map_except(e) == TRUE

\* "except Exception" of create_discovery_timeline: whether it catches e.
timeline_except(e) == TRUE

\* "if year:"
truthy(y) == y.ok /\ y.year # 0

\* The loop that collects the years of the rows from r on.
RECURSIVE collect_years(_, _)
collect_years(t, r) ==
    IF r > Len(t.rows) THEN <<>>
    ELSE LET year == extract_years(Cell(t, r, <<"collection_dates">>))
         IN  (IF truthy(year) THEN <<year.year>> ELSE <<>>)
             \o collect_years(t, r + 1)

\* pd.Series(years).value_counts().sort_index(): the count of each year.
value_counts(years) ==
    [y \in Range(years) |-> Cardinality({i \in DOMAIN years : years[i] = y})]

\* Mutant: the visualizations are built whether or not a row matched.
should_visualize_always(t) == TRUE

\* "if not trex_records.empty:" before the visualizations.
should_visualize(t) == ~empty(t)

\* --------------------------------------------------------------- reporter

\* The per-column summary lines, for the taxonomic columns from c on;
\* a column the table lacks is passed over.
RECURSIVE column_summaries(_, _)
column_summaries(t, c) ==
    IF c > Len(taxonomic_columns) THEN <<>>
    ELSE LET col  == taxonomic_columns[c]
             hits == IF HasCol(t, col)
                     THEN {r \in DOMAIN t.rows : contains_trex(Cell(t, r, col))}
                     ELSE {}
         IN  (IF hits # {}
              THEN <<[level |-> "INFO", msg |-> "Found T-Rex related entries in",
                      col |-> col, n |-> Cardinality(hits)]>>
              ELSE <<>>)
             \o column_summaries(t, c + 1)

\* Mutant: the per-record report passes over a column the table lacks.
report_raises_never(t) == FALSE

\* Whether a record[...] lookup of the per-record report raises KeyError.
report_raises(t) == \E i \in DOMAIN report_columns : ~HasCol(t, report_columns[i])

\* The per-record blocks: the record's label, and how many of the three
\* comment fields are present and logged.
record_blocks(t) ==
    [r \in DOMAIN t.rows |->
        [level |-> "INFO", msg |-> "Record", col |-> <<>>,
         n |-> t.index[r] + 1]]

Entry(level, msg, n) == [level |-> level, msg |-> msg, col |-> <<>>, n |-> n]
\* logging.error(f"...{str(e)}", exc_info=True)
ErrorEntry(msg, e) == [level |-> "ERROR", msg |-> msg, col |-> <<e>>, n |-> 0]

\* ------------------------------------------------------------------ inputs

AllColumns == <<occurrence_no>> \o taxonomic_columns \o discovery_columns

Without(cols, c) == SelectSeq(cols, LAMBDA x : x # c)

\* The headers of the input file: every column, or one column missing.
Headers ==
    { AllColumns, Without(AllColumns, <<"collectors">>),
      Without(AllColumns, <<"family">>) }

txt_tyrannosaurus_rex ==
    <<"T","y","r","a","n","n","o","s","a","u","r","u","s"," ","r","e","x">>
txt_tyrannosaurus == SubSeq(txt_tyrannosaurus_rex, 1, 13)
txt_t_rex       == <<"T","-","R","e","x">>
txt_triceratops == <<"T","r","i","c","e","r","a","t","o","p","s">>
txt_1990        == <<"1","9","9","0">>
txt_range       == <<"1","9","9","0","-","1","9","9","2">>
txt_ndash_range == <<"1","9","9","0","ndash","1","9","9","2">>
txt_summer      == <<"1","9","9","0",","," ","s","u","m","m","e","r">>
txt_unknown     == <<"u","n","k","n","o","w","n">>
txt_0000        == <<"0","0","0","0">>

BlankRow == [c \in Range(AllColumns) |-> IF c = occurrence_no THEN <<"7">> ELSE <<>>]

\* The data lines the input file is made of, as column -> field text.
SampleRows ==
    { ( <<"accepted_name">> :> txt_tyrannosaurus_rex @@
        <<"genus">> :> txt_tyrannosaurus @@
        <<"lat">> :> <<"4","5">> @@ <<"lng">> :> <<"-","1","0","0">> @@
        <<"collection_dates">> :> txt_1990 ) @@ BlankRow,
      ( <<"identified_name">> :> txt_t_rex @@
        <<"lng">> :> <<"-","1","0","0">> @@
        <<"collection_dates">> :> txt_unknown ) @@ BlankRow,
      ( <<"genus">> :> txt_triceratops @@
        <<"lat">> :> <<"4","5">> @@ <<"lng">> :> <<"-","1","0","0">> @@
        <<"collection_dates">> :> txt_range ) @@ BlankRow,
      ( <<"identified_name">> :> txt_t_rex @@
        <<"lat">> :> <<"a","b","c">> @@ <<"lng">> :> <<"-","1","0","0">> @@
        <<"collection_dates">> :> txt_0000 ) @@ BlankRow,
      ( <<"phylum">> :> <<"4","5">> ) @@ BlankRow }

MetaLine ==
    [quoted |-> TRUE,
     fields |-> << <<"Data Provider">>, <<"The Paleobiology Database">> >>]

\* A file of k metadata lines, a header (quoted or not) and the data lines.
InputLines(k, q, hdr, rows) ==
    [i \in 1..k |-> MetaLine]
    \o <<[quoted |-> q, fields |-> hdr]>>
    \o [r \in DOMAIN rows |->
          [quoted |-> q, fields |-> [j \in DOMAIN hdr |-> rows[r][hdr[j]]]]]

NoFile == [exists |-> FALSE, lines |-> <<>>]

Files ==
    { [exists |-> TRUE, lines |-> InputLines(k, q, hdr, rows)] :
        k \in 0..MaxMeta, q \in BOOLEAN, hdr \in Headers,
        rows \in UNION {[1..n -> SampleRows] : n \in 0..MaxRows} }

\* ------------------------------------------------------------------- state

VARIABLES
    pc,             \* the statement the script is at
    dirs,           \* the directories that exist
    input,          \* data/pbdb_data.csv
    header_row,
    df,
    trex_mask,
    trex_records,
    map_file,       \* outputs/trex_locations.html
    timeline_file,  \* outputs/trex_timeline.png
    csv_file,       \* outputs/trex_analysis.csv
    log,            \* the records handed to logging
    stages,         \* the steps run so far, in order
    exc,            \* the exception raised, "none" when none was
    caught,         \* how many times the outer handler ran
    arg, ret        \* a direct call of one of the two functions

vars == <<pc, dirs, input, header_row, df, trex_mask, trex_records, map_file,
          timeline_file, csv_file, log, stages, exc, caught, arg, ret>>

NoTable == [columns |-> <<>>, index |-> <<>>, rows |-> <<>>]
NoOutput == [exists |-> FALSE, content |-> <<>>]
NoRet == [fn |-> "none", year |-> None, hit |-> FALSE]

Init ==
    /\ pc = "logging"
    /\ dirs \in {{}, {"data"}, {"data", "outputs"}}
    /\ input \in (IF "data" \in dirs THEN Files \cup {NoFile} ELSE {NoFile})
    /\ header_row = 0
    /\ df = NoTable
    /\ trex_mask = <<>>
    /\ trex_records = NoTable
    /\ map_file = NoOutput
    /\ timeline_file = NoOutput
    /\ csv_file = NoOutput
    /\ log = <<>>
    /\ stages = <<>>
    /\ exc = "none"
    /\ caught = 0
    /\ arg = Null
    /\ ret = NoRet

\* A statement inside the outer try raises e.
Raise(e) == pc' = "except" /\ exc' = e

\* Lines 12-23: the log file is opened in data/ before the try is entered.
SetupLogging ==
    /\ pc = "logging"
    /\ stages' = Append(stages, "logging")
    /\ IF "data" \in dirs
       THEN pc' = "makedirs" /\ exc' = exc
       ELSE pc' = "crashed" /\ exc' = "FileNotFoundError"
    /\ UNCHANGED <<dirs, input, header_row, df, trex_mask, trex_records,
                   map_file, timeline_file, csv_file, log, caught, arg, ret>>

\* Lines 26-31.
MakeDirs ==
    /\ pc = "makedirs"
    /\ stages' = Append(stages, "makedirs")
    /\ dirs' = dirs \cup {"data", "outputs"}
    /\ log' = Append(log, Entry("DEBUG", "Attempting to read CSV file...", 0))
    /\ pc' = "find_header"
    /\ UNCHANGED <<input, header_row, df, trex_mask, trex_records, map_file,
                   timeline_file, csv_file, exc, caught, arg, ret>>

\* Lines 33-41.
FindHeader ==
    /\ pc = "find_header"
    /\ stages' = Append(stages, "find_header")
    /\ IF ~input.exists
       THEN /\ Raise("FileNotFoundError")
            /\ UNCHANGED <<header_row, log>>
       ELSE /\ header_row' = find_header(input.lines)
            /\ log' = Append(log, Entry("DEBUG", "Found header row at line",
                                        header_row'))
            /\ pc' = "read_csv"
            /\ exc' = exc
    /\ UNCHANGED <<dirs, input, df, trex_mask, trex_records, map_file,
                   timeline_file, csv_file, caught, arg, ret>>

\* Lines 43-50.  A file with nothing after the skipped lines raises
\* EmptyDataError; a data line longer than the header is either taken with
\* its leading fields as row labels or refused with ParserError.
ReadCsv ==
    /\ pc = "read_csv"
    /\ stages' = Append(stages, "read_csv")
    /\ \E refuse \in BOOLEAN :
        IF Len(input.lines) < header_row + 1
        THEN /\ ~refuse
             /\ Raise("EmptyDataError")
             /\ UNCHANGED <<df, log>>
        ELSE IF refuse
        THEN /\ Ragged(input.lines, header_row)
             /\ Raise("ParserError")
             /\ UNCHANGED <<df, log>>
        ELSE /\ df' = read_csv(input.lines, header_row)
             /\ log' = Append(log, Entry("INFO", "Successfully loaded CSV with",
                                         Len(df'.rows)))
             /\ pc' = "summaries"
             /\ exc' = exc
    /\ UNCHANGED <<dirs, input, header_row, trex_mask, trex_records, map_file,
                   timeline_file, csv_file, caught, arg, ret>>

\* Lines 101-113.
Summaries ==
    /\ pc = "summaries"
    /\ stages' = Append(stages, "summaries")
    /\ log' = log \o column_summaries(df, 1)
    /\ pc' = "match"
    /\ UNCHANGED <<dirs, input, header_row, df, trex_mask, trex_records,
                   map_file, timeline_file, csv_file, exc, caught, arg, ret>>

\* Lines 115-123.  df[taxonomic_columns] raises KeyError when the table
\* lacks one of the columns.
Match ==
    /\ pc = "match"
    /\ stages' = Append(stages, "match")
    /\ IF \E c \in Range(taxonomic_columns) : ~HasCol(df, c)
       THEN /\ Raise("KeyError")
            /\ UNCHANGED <<trex_mask, trex_records, log>>
       ELSE /\ trex_mask' = compute_trex_mask(df)
            /\ trex_records' = BoolIndex(df, trex_mask')
            /\ log' = Append(log,
                    Entry("INFO", "Total number of potential T-Rex records:",
                          Len(trex_records'.rows)))
            /\ pc' = "report"
            /\ exc' = exc
    /\ UNCHANGED <<dirs, input, header_row, df, map_file, timeline_file,
                   csv_file, caught, arg, ret>>

\* Lines 125-159.
Report ==
    /\ pc = "report"
    /\ stages' = Append(stages, "report")
    /\ IF empty(trex_records)
       THEN pc' = "visualize" /\ UNCHANGED <<log, exc>>
       ELSE IF report_raises(trex_records)
       THEN Raise("KeyError") /\ UNCHANGED log
       ELSE /\ log' = log \o record_blocks(trex_records)
            /\ pc' = "visualize"
            /\ exc' = exc
    /\ UNCHANGED <<dirs, input, header_row, df, trex_mask, trex_records,
                   map_file, timeline_file, csv_file, caught, arg, ret>>

\* Lines 254-257 (the definitions of lines 161-252 run nothing).
Visualize ==
    /\ pc = "visualize"
    /\ stages' = Append(stages, "visualize")
    /\ IF should_visualize(trex_records)
       THEN /\ log' = Append(log, Entry("INFO", "Creating visualizations...",
                                        Len(trex_records.rows)))
            /\ pc' = "create_fossil_map"
       ELSE /\ log' = log
            /\ pc' = "to_csv"
    /\ UNCHANGED <<dirs, input, header_row, df, trex_mask, trex_records,
                   map_file, timeline_file, csv_file, exc, caught, arg, ret>>

\* Line 258, lines 181-214.  m.save may fail (saved = FALSE).
CreateFossilMap ==
    /\ pc = "create_fossil_map"
    /\ stages' = Append(stages, "create_fossil_map")
    /\ \E saved \in BOOLEAN :
        LET m == add_markers(trex_records, 1)
            e == IF m.raised THEN "ValueError" ELSE "OSError"
        IN  IF ~m.raised /\ saved
            THEN /\ map_file' = [exists |-> TRUE, content |-> m.markers]
                 /\ log' = Append(log, Entry("INFO", "Map saved successfully to",
                                             Len(m.markers)))
                 /\ pc' = "create_discovery_timeline"
                 /\ exc' = exc
            ELSE /\ m.raised => saved
                 /\ map_file' = map_file
                 /\ IF map_except(e)
                    THEN /\ log' = Append(log, ErrorEntry("Error creating map:", e))
                         /\ pc' = "create_discovery_timeline"
                         /\ exc' = exc
                    ELSE Raise(e) /\ log' = log
    /\ UNCHANGED <<dirs, input, header_row, df, trex_mask, trex_records,
                   timeline_file, csv_file, caught, arg, ret>>

\* Line 259, lines 217-252.  plt.savefig may fail (saved = FALSE).
CreateDiscoveryTimeline ==
    /\ pc = "create_discovery_timeline"
    /\ stages' = Append(stages, "create_discovery_timeline")
    /\ \E saved \in BOOLEAN :
        LET years == collect_years(trex_records, 1)
        IN  IF years = <<>>
            THEN /\ saved
                 /\ log' = Append(log, Entry("WARNING",
                                   "No valid years found for timeline plot", 0))
                 /\ timeline_file' = timeline_file
                 /\ pc' = "to_csv"
                 /\ exc' = exc
            ELSE IF saved
            THEN /\ timeline_file' = [exists |-> TRUE,
                                      content |-> value_counts(years)]
                 /\ log' = Append(log, Entry("INFO",
                                   "Timeline plot saved successfully to", Len(years)))
                 /\ pc' = "to_csv"
                 /\ exc' = exc
            ELSE /\ timeline_file' = timeline_file
                 /\ IF timeline_except("OSError")
                    THEN /\ log' = Append(log, ErrorEntry("Error creating timeline:",
                                                       "OSError"))
                         /\ pc' = "to_csv"
                         /\ exc' = exc
                    ELSE Raise("OSError") /\ log' = log
    /\ UNCHANGED <<dirs, input, header_row, df, trex_mask, trex_records,
                   map_file, csv_file, caught, arg, ret>>

\* Lines 261-265.  to_csv may fail (saved = FALSE).
SaveCsv ==
    /\ pc = "to_csv"
    /\ stages' = Append(stages, "to_csv")
    /\ \E saved \in BOOLEAN :
        IF saved
        THEN /\ csv_file' = [exists |-> TRUE, content |-> to_csv(trex_records)]
             /\ log' = log \o <<Entry("INFO", "Saving detailed results to", 0),
                                Entry("INFO", "Analysis completed successfully", 0)>>
             /\ pc' = "done"
             /\ exc' = exc
        ELSE /\ csv_file' = csv_file
             /\ log' = Append(log, Entry("INFO", "Saving detailed results to", 0))
             /\ Raise("OSError")
    /\ UNCHANGED <<dirs, input, header_row, df, trex_mask, trex_records,
                   map_file, timeline_file, caught, arg, ret>>

\* Lines 267-268.
Handler ==
    /\ pc = "except"
    /\ log' = Append(log, ErrorEntry("An error occurred:", exc))
    /\ caught' = caught + 1
    /\ pc' = "done"
    /\ UNCHANGED <<dirs, input, header_row, df, trex_mask, trex_records,
                   map_file, timeline_file, csv_file, stages, exc, arg, ret>>

Next ==
    \/ SetupLogging
    \/ MakeDirs
    \/ FindHeader
    \/ ReadCsv
    \/ Summaries
    \/ Match
    \/ Report
    \/ Visualize
    \/ CreateFossilMap
    \/ CreateDiscoveryTimeline
    \/ SaveCsv
    \/ Handler

Spec == Init /\ [][Next]_vars

\* ------------------------------------------------- the functions, called
\* directly on one value

YearAlphabet == {"1", "9", "-", "ndash", ",", " "}
TrexAlphabet == {"t", "T", "-", " ", ".", "r", "e", "x"}

Texts(alphabet, n) == UNION {[1..k -> alphabet] : k \in 0..n}

UnitInputs ==
    {Null, Num(txt_1990), Num(<<"4","5",".","0">>)}
    \cup {Str(s) : s \in Texts(YearAlphabet, MaxYearLen)}
    \cup {Str(s) : s \in Texts(TrexAlphabet, MaxTrexLen)}
    \cup {Str(s) : s \in {txt_1990, txt_range, txt_ndash_range, txt_summer,
                          txt_unknown, txt_0000, txt_tyrannosaurus_rex,
                          txt_t_rex, txt_triceratops,
                          <<"T","r","e","x","u","s">>,
                          <<"T","."," ","r","e","x","u","s">>,
                          <<"T","Y","R","A","N","T">>,
                          <<"i","n"," ","1","9","9","0"," ",",">>,
                          <<"1","9","9","-","1","9","9","2","0">>}}

InitUnit ==
    /\ pc = "unit"
    /\ arg \in UnitInputs
    /\ ret = NoRet
    /\ dirs = {}
    /\ input = NoFile
    /\ header_row = 0
    /\ df = NoTable
    /\ trex_mask = <<>>
    /\ trex_records = NoTable
    /\ map_file = NoOutput
    /\ timeline_file = NoOutput
    /\ csv_file = NoOutput
    /\ log = <<>>
    /\ stages = <<>>
    /\ exc = "none"
    /\ caught = 0

CallExtractYears ==
    /\ pc = "unit"
    /\ ret.fn = "none"
    /\ ret' = [fn |-> "extract_years", year |-> extract_years(arg), hit |-> FALSE]
    /\ UNCHANGED <<pc, dirs, input, header_row, df, trex_mask, trex_records,
                   map_file, timeline_file, csv_file, log, stages, exc, caught,
                   arg>>

CallContainsTrex ==
    /\ pc = "unit"
    /\ ret.fn = "none"
    /\ ret' = [fn |-> "contains_trex", year |-> None, hit |-> contains_trex(arg)]
    /\ UNCHANGED <<pc, dirs, input, header_row, df, trex_mask, trex_records,
                   map_file, timeline_file, csv_file, log, stages, exc, caught,
                   arg>>

NextUnit == CallExtractYears \/ CallContainsTrex

SpecUnit == InitUnit /\ [][NextUnit]_vars

\* ================================================================ claims

InStages(s) == \E i \in DOMAIN stages : stages[i] = s
HasLog(m) == \E i \in DOMAIN log : log[i].msg = m
LoggedError(m, e) == \E i \in DOMAIN log : log[i].msg = m /\ log[i].col = <<e>>
\* The step run last raised into the outer try.
RaisedIn(s) == stages # <<>> /\ stages[Len(stages)] = s /\ exc # "none"
\* read_csv has returned a table.
Loaded == InStages("read_csv") /\ ~RaisedIn("read_csv")
\* trex_mask and trex_records have been assigned.
MaskBuilt == InStages("match") /\ ~RaisedIn("match")

\* ---- C1

HasSub(s, w) ==
    \E i \in 1..(Len(s) - Len(w) + 1) : SubSeq(s, i, i + Len(w) - 1) = w

\* t, any number of dots, any number of blanks, then "rexus".
HasRexus(s) ==
    \E i \in 1..Len(s) : \E d \in 0..Len(s) : \E w \in 0..Len(s) :
        /\ i + d + w + 5 <= Len(s)
        /\ s[i] = "t"
        /\ \A j \in (i + 1)..(i + d) : s[j] = "."
        /\ \A j \in (i + d + 1)..(i + d + w) : s[j] \in Whitespace
        /\ SubSeq(s, i + d + w + 1, i + d + w + 5) = <<"r","e","x","u","s">>

\* A cell is text whose lower-cased form one of the four patterns matches.
TextMatches(x) ==
    /\ x.t = "str"
    /\ LET s == Lower(x.v)
       IN  \/ HasSub(s, <<"t","r","e","x">>)
           \/ \E c \in {"-"} \cup Whitespace : HasSub(s, <<"t", c, "r","e","x">>)
           \/ HasSub(s, <<"t","y","r","a","n","n","o","s","a","u","r","u","s">>)
           \/ HasRexus(s)
           \/ HasSub(s, <<"t","y","r","a","n","t">>)

\* C1: once the mask is built it has one entry per row of the table, true
\* exactly when one of the nine taxonomic cells of the row is text that a
\* pattern matches (a null or a number never counts); trex_records holds
\* exactly the rows whose entry is true, in their original order; and
\* "Tyrannosaurus rex" and "T-Rex" match while "Triceratops" does not.
C1_MaskIffSomeColumnMatches ==
    MaskBuilt =>
        /\ Len(trex_mask) = Len(df.rows)
        /\ \A r \in DOMAIN df.rows :
              trex_mask[r] <=>
                 \E c \in Range(taxonomic_columns) : TextMatches(Cell(df, r, c))
        /\ trex_records.columns = df.columns
        /\ {trex_records.index[j] : j \in DOMAIN trex_records.index}
              = {r - 1 : r \in {q \in DOMAIN df.rows : trex_mask[q]}}
        /\ \A j \in DOMAIN trex_records.rows :
              /\ trex_records.rows[j] = df.rows[trex_records.index[j] + 1]
              /\ \A k \in DOMAIN trex_records.rows :
                    j < k => trex_records.index[j] < trex_records.index[k]
        /\ contains_trex(Str(txt_tyrannosaurus_rex))
        /\ contains_trex(Str(txt_t_rex))
        /\ ~contains_trex(Str(txt_triceratops))

\* A table where one row matches, another does not, and a taxonomic cell
\* holds a number.
C1_Witness ==
    /\ MaskBuilt
    /\ \E r \in DOMAIN df.rows : trex_mask[r]
    /\ \E r \in DOMAIN df.rows :
          /\ ~trex_mask[r]
          /\ \E c \in Range(taxonomic_columns) : Cell(df, r, c).t = "num"

\* ---- C2

\* C2: once the map builder has run, it either saved the map or logged its
\* own error, and the timeline builder runs next; once the timeline builder
\* has run, it saved the chart or logged its warning or its own error, and
\* the CSV write runs next; the write stores the filtered rows unless
\* to_csv itself raises.
C2_BuildersNeverAbort ==
    /\ InStages("create_fossil_map") =>
          /\ \/ map_file.exists /\ HasLog("Map saved successfully to")
             \/ ~map_file.exists /\ HasLog("Error creating map:")
          /\ pc = "create_discovery_timeline"
                \/ InStages("create_discovery_timeline")
    /\ InStages("create_discovery_timeline") =>
          /\ \/ timeline_file.exists /\ HasLog("Timeline plot saved successfully to")
             \/ ~timeline_file.exists
                  /\ \/ HasLog("No valid years found for timeline plot")
                     \/ HasLog("Error creating timeline:")
          /\ pc = "to_csv" \/ InStages("to_csv")
    /\ InStages("create_fossil_map") /\ InStages("to_csv") =>
          \/ /\ csv_file.exists
             /\ Len(csv_file.content) = Len(trex_records.rows) + 1
             /\ exc = "none"
          \/ RaisedIn("to_csv") /\ exc = "OSError"
    /\ InStages("create_fossil_map") /\ pc = "done" /\ exc = "none" =>
          csv_file.exists

\* Both builders failed and the CSV was written all the same.
C2_Witness ==
    /\ pc = "done"
    /\ HasLog("Error creating map:")
    /\ HasLog("Error creating timeline:")
    /\ csv_file.exists
    /\ Len(csv_file.content) >= 2

\* ---- C3

IsYearAt(s, i) == i + 3 <= Len(s) /\ \A j \in i..(i + 3) : s[j] \in Digits

\* The positions where the k-th pattern matches, stated without the engine.
YearHits(k, s) ==
    {i \in 1..Len(s) :
        /\ IsYearAt(s, i)
        /\ CASE k = 1 -> TRUE
             [] k = 2 -> i + 4 <= Len(s) /\ s[i + 4] = "-" /\ IsYearAt(s, i + 5)
             [] k = 3 -> i + 4 <= Len(s) /\ s[i + 4] = "ndash" /\ IsYearAt(s, i + 5)
             [] k = 4 -> \E w \in 0..Len(s) :
                            /\ i + 4 + w <= Len(s)
                            /\ \A j \in (i + 4)..(i + 3 + w) : s[j] \in Whitespace
                            /\ s[i + 4 + w] = ","}

YearValue(s, i) ==
    1000 * DigitVal(s[i]) + 100 * DigitVal(s[i + 1])
        + 10 * DigitVal(s[i + 2]) + DigitVal(s[i + 3])

Least(S) == CHOOSE i \in S : \A j \in S : i <= j

\* C3: extract_years returns None for a null; otherwise, on the text of its
\* argument, the year at the leftmost match of the first of the four
\* patterns that matches, None when none does; "1990", "1990-1992",
\* "1990(en dash)1992" and "1990, summer" give 1990, "unknown" gives None.
C3_ExtractYears ==
    ret.fn = "extract_years" =>
        /\ isna(arg) => ret.year = None
        /\ ~isna(arg) =>
              LET s    == arg.v
                  some == {k \in 1..4 : YearHits(k, s) # {}}
              IN  IF some = {} THEN ret.year = None
                  ELSE ret.year = [ok |-> TRUE,
                           year |-> YearValue(s, Least(YearHits(Least(some), s)))]
        /\ arg \in {Str(txt_1990), Str(txt_range), Str(txt_ndash_range),
                    Str(txt_summer)} => ret.year = [ok |-> TRUE, year |-> 1990]
        /\ arg = Str(txt_unknown) => ret.year = None

\* A range was given and its first year came back.
C3_Witness ==
    /\ ret.fn = "extract_years"
    /\ arg = Str(txt_range)
    /\ ret.year = [ok |-> TRUE, year |-> 1990]

\* ---- C4

\* The rows of the filtered table from which extract_years gets a year.
RowsWithYear ==
    {r \in DOMAIN trex_records.rows :
        extract_years(Cell(trex_records, r, <<"collection_dates">>)).ok}

RECURSIVE SumOver(_, _)
SumOver(f, S) ==
    IF S = {} THEN 0
    ELSE LET y == CHOOSE y \in S : TRUE IN f[y] + SumOver(f, S \ {y})

\* C4: once the timeline builder has run without an internal failure, the
\* chart is saved exactly when at least one row yields a year, its counts
\* sum to the number of rows that yielded a year, and with no such row a
\* warning is logged, no image is written and no error is logged.
C4_ChartIffSomeYear ==
    InStages("create_discovery_timeline")
        /\ ~HasLog("Error creating timeline:") =>
        /\ timeline_file.exists <=> RowsWithYear # {}
        /\ timeline_file.exists =>
              SumOver(timeline_file.content, DOMAIN timeline_file.content)
                 = Cardinality(RowsWithYear)
        /\ RowsWithYear = {} =>
              /\ HasLog("No valid years found for timeline plot")
              /\ ~timeline_file.exists

\* ---- C5

\* The labels of the filtered rows whose latitude and longitude are both
\* present.
LocatedRows ==
    {trex_records.index[r] : r \in
        {q \in DOMAIN trex_records.rows :
            /\ Cell(trex_records, q, <<"lat">>).t # "null"
            /\ Cell(trex_records, q, <<"lng">>).t # "null"}}

\* C5 as stated: once the map builder has run, a written map holds a marker
\* for exactly the rows with both coordinates, and the map is written only
\* when at least one row has both coordinates.
C5_MapOnlyWhenLocated ==
    InStages("create_fossil_map") =>
        /\ map_file.exists => Range(map_file.content) = LocatedRows
        /\ map_file.exists => LocatedRows # {}

\* C5, amended: once the map builder has run, a written map holds a marker
\* for exactly the rows with both coordinates, in row order, and that may
\* be no marker at all; when no map was written the builder logged its own
\* error, and a ValueError among the coordinates comes from a row that has
\* both of them, never from a row with a null one.
C5_MapOfLocatedRows ==
    InStages("create_fossil_map") =>
        /\ map_file.exists =>
              /\ Range(map_file.content) = LocatedRows
              /\ Len(map_file.content) = Cardinality(LocatedRows)
              /\ \A i, j \in DOMAIN map_file.content :
                    i < j => map_file.content[i] < map_file.content[j]
        /\ ~map_file.exists => HasLog("Error creating map:")
        /\ LoggedError("Error creating map:", "ValueError") =>
              \E r \in DOMAIN trex_records.rows :
                  /\ trex_records.index[r] \in LocatedRows
                  /\ \/ ~float_ok(Cell(trex_records, r, <<"lat">>))
                     \/ ~float_ok(Cell(trex_records, r, <<"lng">>))
        /\ ~RaisedIn("create_fossil_map")

\* A map written with no marker: every matched row lacks a coordinate.
C5_Witness ==
    /\ InStages("create_fossil_map")
    /\ map_file.exists
    /\ map_file.content = <<>>
    /\ \E r \in DOMAIN trex_records.rows :
          Cell(trex_records, r, <<"lat">>).t = "null"

\* ---- C6

TokenLines == {i \in DOMAIN input.lines : startswith_token(input.lines[i])}

\* C6: header_row is the (0-based) number of the first line that starts
\* with the token, 0 when there is none; the loaded table is named by that
\* line and has one row per line after it, so k metadata lines before the
\* header give (lines - k - 1) rows, and 3 of them (lines - 4).
C6_HeaderAndRowCount ==
    /\ InStages("find_header") /\ input.exists =>
          header_row = (IF TokenLines = {} THEN 0 ELSE Least(TokenLines) - 1)
    /\ Loaded =>
          /\ df.columns = input.lines[header_row + 1].fields
          /\ Len(df.rows) = Len(input.lines) - header_row - 1
          /\ \A k \in 0..MaxMeta :
                (/\ Len(input.lines) > k
                 /\ \A i \in 1..k : ~startswith_token(input.lines[i])
                 /\ startswith_token(input.lines[k + 1]))
                => Len(df.rows) = Len(input.lines) - k - 1
          /\ (/\ Len(input.lines) >= 4
              /\ \A i \in 1..3 : ~startswith_token(input.lines[i])
              /\ startswith_token(input.lines[4]))
             => Len(df.rows) = Len(input.lines) - 4

\* Three metadata lines, the header, two data lines: two rows.
C6_Witness ==
    /\ Loaded
    /\ header_row = 3
    /\ Len(input.lines) = 6
    /\ Len(df.rows) = 2

\* ---- C7

\* C7: the written CSV, loaded again by the same two steps, gives a table
\* with the columns of the filtered table and as many rows, each of which
\* matches again.
C7_RoundTrip ==
    csv_file.exists =>
        LET lines == csv_file.content
            again == read_csv(lines, find_header(lines))
            mask  == compute_trex_mask(again)
        IN  /\ ~Ragged(lines, find_header(lines))
            /\ again.columns = trex_records.columns
            /\ Len(again.rows) = Len(trex_records.rows)
            /\ Len(again.rows) = Cardinality({r \in DOMAIN trex_mask : trex_mask[r]})
            /\ \A r \in DOMAIN mask : mask[r]

\* A CSV written from a real selection: some rows kept, some dropped.
C7_Witness ==
    /\ csv_file.exists
    /\ Len(trex_records.rows) >= 1
    /\ Len(trex_records.rows) < Len(df.rows)

\* ---- C8

\* C8: no exception leaves the script uncaught; one that was raised is
\* handled once by the outer handler, which logs it.
C8_EveryExceptionCaughtOnce ==
    /\ pc # "crashed"
    /\ caught <= 1
    /\ exc # "none" /\ pc = "done" => caught = 1 /\ HasLog("An error occurred:")

\* ---- C9

\* A row matched and the table lacks a column the per-record report reads.
ReportColumnMissing ==
    /\ MaskBuilt
    /\ \E r \in DOMAIN trex_mask : trex_mask[r]
    /\ \E i \in DOMAIN report_columns :
          \A j \in DOMAIN df.columns : df.columns[j] # report_columns[i]

\* C9: with a matched row and a report column missing, nothing after the
\* report runs and no output file is written; the report's KeyError reaches
\* the outer handler, which logs it once; and the per-column summaries
\* never raise, whatever columns the table has.
C9_MissingReportColumnStopsRun ==
    /\ ReportColumnMissing =>
          /\ ~InStages("visualize")
          /\ ~InStages("create_fossil_map")
          /\ ~InStages("create_discovery_timeline")
          /\ ~InStages("to_csv")
          /\ ~map_file.exists /\ ~timeline_file.exists /\ ~csv_file.exists
          /\ InStages("report") => exc = "KeyError" /\ pc \in {"except", "done"}
          /\ pc = "done" => caught = 1 /\ LoggedError("An error occurred:", "KeyError")
    /\ InStages("summaries") => pc = "match" \/ InStages("match")

\* The run ended in the outer handler on the report's KeyError.
C9_Witness ==
    /\ ReportColumnMissing
    /\ InStages("report")
    /\ pc = "done"

\* ---- C10

StageOrder ==
    <<"logging", "makedirs", "find_header", "read_csv", "summaries", "match",
      "report", "visualize", "create_fossil_map", "create_discovery_timeline",
      "to_csv">>

StageRank(s) == CHOOSE i \in DOMAIN StageOrder : StageOrder[i] = s

NoRowMatches == MaskBuilt /\ \A r \in DOMAIN trex_mask : ~trex_mask[r]

====
